---- MODULE Spec2Model ----
(***************************************************************************)
(* xlsxpress: the coordinate codec of src/compat/utils.rs                  *)
(* (column_index_from_string, get_column_letter, coordinate_from_string,   *)
(* coordinate_to_string).                                                  *)
(*                                                                         *)
(* Representation.  TLC's integers are 32 bits wide, Rust's usize is 64,   *)
(* so a number is a little-endian sequence of limbs in base LimbBase with  *)
(* no leading (most significant) zero limb; zero is << >>.  The Nat*       *)
(* operators compute on such sequences of any length (mathematical         *)
(* naturals); a usize is a number of at most NumLimbs limbs, and usize     *)
(* arithmetic is the mathematical operation followed by the overflow rule  *)
(* of the build: a panic when overflow checks are compiled in (debug and   *)
(* test profiles), two's complement wrapping otherwise (release).          *)
(*                                                                         *)
(* A string is a sequence of characters, a character is its code point.    *)
(***************************************************************************)
EXTENDS Integers, Sequences, FiniteSets, TLC

VARIABLES
    overflow_checks,  \* the build: TRUE when integer overflow panics
    call,             \* the call under check: the function and its arguments
    ret,              \* what the call returned, NoReturn before it is made
    title,            \* Worksheet.title
    range,            \* Worksheet.range, the cell store (calamine Range<Data>)
    held,             \* the Cell value the caller holds from the last lookup
    queried,          \* the store positions the last call read with range.get
    iters,            \* the RowIterators over the worksheet, by identity
    yielded,          \* per iterator, the results of its next() calls so far
    workbook,         \* Writer.workbook: its worksheets, each the cells written
    reader            \* Workbook.reader: the sheets of the file, in order

gridvars == <<title, range, held, queried, iters, yielded>>
bookvars == <<workbook, reader>>
vars == <<overflow_checks, call, ret, title, range, held, queried, iters, yielded,
          workbook, reader>>

----------------------------------------------------------------------------
(* Numbers *)

LimbBase == 65536
NumLimbs == 4

RECURSIVE NatNorm(_)
NatNorm(x) ==
    IF x = << >> THEN << >>
    ELSE IF x[Len(x)] = 0 THEN NatNorm(SubSeq(x, 1, Len(x) - 1))
    ELSE x

RECURSIVE NatFromInt(_)
NatFromInt(n) ==
    IF n = 0 THEN << >> ELSE <<n % LimbBase>> \o NatFromInt(n \div LimbBase)

\* The value of a number of at most two limbs that TLC's integers can hold.
NatToInt(x) ==
    IF Len(x) = 0 THEN 0
    ELSE IF Len(x) = 1 THEN x[1]
    ELSE x[1] + LimbBase * x[2]

NatIsSmall(x) == Len(x) <= 1 \/ (Len(x) = 2 /\ x[2] < 32768)

Zero == << >>

\* x * m + a for small m and a, the limbs from index i on, with the carry in.
RECURSIVE MulAddLimbs(_, _, _, _)
MulAddLimbs(x, m, i, carry) ==
    IF i > Len(x) THEN (IF carry = 0 THEN << >> ELSE <<carry>>)
    ELSE LET t == x[i] * m + carry
         IN  <<t % LimbBase>> \o MulAddLimbs(x, m, i + 1, t \div LimbBase)

NatMulAdd(x, m, a) == NatNorm(MulAddLimbs(x, m, 1, a))

\* Long division by a small d: limbs i down to 1 with the remainder so far.
RECURSIVE DivLimbs(_, _, _, _)
DivLimbs(x, d, i, rem) ==
    IF i = 0 THEN [q |-> << >>, r |-> rem]
    ELSE LET t    == rem * LimbBase + x[i]
             rest == DivLimbs(x, d, i - 1, t % d)
         IN  [q |-> rest.q \o <<t \div d>>, r |-> rest.r]

NatDiv(x, d) == NatNorm(DivLimbs(x, d, Len(x), 0).q)
NatMod(x, d) == DivLimbs(x, d, Len(x), 0).r

\* x - 1 for x > 0.
RECURSIVE PredLimbs(_)
PredLimbs(x) ==
    IF x[1] > 0 THEN <<x[1] - 1>> \o Tail(x)
    ELSE <<LimbBase - 1>> \o PredLimbs(Tail(x))

NatPred(x) == NatNorm(PredLimbs(x))

NatLeq(x, y) ==
    \/ Len(x) < Len(y)
    \/ /\ Len(x) = Len(y)
       /\ \/ x = y
          \/ \E i \in 1..Len(x) :
                 /\ x[i] < y[i]
                 /\ \A j \in (i + 1)..Len(x) : x[j] = y[j]

NatLess(x, y) == NatLeq(x, y) /\ x # y

RECURSIVE AddLimbs(_, _, _, _)
AddLimbs(x, y, i, carry) ==
    IF i > Len(x) /\ i > Len(y) THEN (IF carry = 0 THEN << >> ELSE <<carry>>)
    ELSE LET a == IF i <= Len(x) THEN x[i] ELSE 0
             b == IF i <= Len(y) THEN y[i] ELSE 0
             t == a + b + carry
         IN  <<t % LimbBase>> \o AddLimbs(x, y, i + 1, t \div LimbBase)

NatAdd(x, y) == NatNorm(AddLimbs(x, y, 1, 0))

\* x + 1
RECURSIVE SuccLimbs(_)
SuccLimbs(x) ==
    IF x = << >> THEN <<1>>
    ELSE IF x[1] < LimbBase - 1 THEN <<x[1] + 1>> \o Tail(x)
    ELSE <<0>> \o SuccLimbs(Tail(x))

NatSucc(x) == SuccLimbs(x)

\* usize: the numbers below LimbBase^NumLimbs.
FitsUsize(x) == Len(x) <= NumLimbs
WrapUsize(x) == NatNorm(SubSeq(x, 1, IF Len(x) < NumLimbs THEN Len(x) ELSE NumLimbs))
USIZE_MAX == [i \in 1..NumLimbs |-> LimbBase - 1]

----------------------------------------------------------------------------
(* Characters and results *)

CharA == 65
CharZ == 90
Char0 == 48
Char9 == 57

is_ascii_uppercase(c) == CharA <= c /\ c <= CharZ
is_ascii_digit(c) == Char0 <= c /\ c <= Char9

Ok(v) == [tag |-> "Ok", val |-> v]
\* Error::InvalidCellReference { reference }
invalid_cell_reference(reference) == [tag |-> "Err", reference |-> reference]
Panic == [tag |-> "Panic"]
Value(v) == [tag |-> "Value", val |-> v]
NoReturn == [tag |-> "None"]

----------------------------------------------------------------------------
(* src/compat/utils.rs *)

\* A plausible slip: the letter's value taken zero-based (no + 1).
RECURSIVE ColumnIndexLoopZeroBased(_, _, _)
ColumnIndexLoopZeroBased(col, i, result) ==
    IF i > Len(col) THEN Ok(result)
    ELSE IF ~is_ascii_uppercase(col[i]) THEN invalid_cell_reference(col)
    ELSE LET next == NatMulAdd(result, 26, col[i] - CharA)
         IN  IF FitsUsize(next) THEN ColumnIndexLoopZeroBased(col, i + 1, next)
             ELSE IF overflow_checks THEN Panic
             ELSE ColumnIndexLoopZeroBased(col, i + 1, WrapUsize(next))

\* The loop of column_index_from_string from character i on, result so far.
RECURSIVE ColumnIndexLoop(_, _, _)
ColumnIndexLoop(col, i, result) ==
    IF i > Len(col) THEN Ok(result)
    ELSE IF ~is_ascii_uppercase(col[i]) THEN invalid_cell_reference(col)
    ELSE LET next == NatMulAdd(result, 26, col[i] - CharA + 1)
         IN  IF FitsUsize(next) THEN ColumnIndexLoop(col, i + 1, next)
             ELSE IF overflow_checks THEN Panic
             ELSE ColumnIndexLoop(col, i + 1, WrapUsize(next))

column_index_from_string(col) ==
    IF col = << >> THEN invalid_cell_reference(col)
    ELSE ColumnIndexLoop(col, 1, Zero)

\* A plausible slip: the decrement is used for the letter but not for the
\* division, so a multiple of 26 carries into an extra leading letter.
RECURSIVE get_column_letter_carry(_)
get_column_letter_carry(col) ==
    IF col = Zero THEN << >>
    ELSE get_column_letter_carry(NatDiv(col, 26))
             \o <<CharA + NatMod(NatPred(col), 26)>>

\* A plausible slip: no decrement at all (plain base 26 with A as digit 0).
RECURSIVE get_column_letter_naive(_)
get_column_letter_naive(col) ==
    IF col = Zero THEN << >>
    ELSE get_column_letter_naive(NatDiv(col, 26)) \o <<CharA + NatMod(col, 26)>>

\* A plausible slip: no decrement, the letter taken as 'A' - 1 + col % 26.
RECURSIVE get_column_letter_at_sign(_)
get_column_letter_at_sign(col) ==
    IF col = Zero THEN << >>
    ELSE get_column_letter_at_sign(NatDiv(col, 26))
             \o <<CharA - 1 + NatMod(col, 26)>>

RECURSIVE get_column_letter(_)
get_column_letter(col) ==
    IF col = Zero THEN << >>
    ELSE LET c == NatPred(col)
         IN  get_column_letter(NatDiv(c, 26)) \o <<CharA + NatMod(c, 26)>>


\* The scan of coordinate_from_string from character i on.  ok = FALSE is
\* the early return with an error.
RECURSIVE ScanLoop(_, _, _, _, _)
ScanLoop(coord, i, col_part, row_part, in_row) ==
    IF i > Len(coord)
    THEN [ok |-> TRUE, col_part |-> col_part, row_part |-> row_part]
    ELSE IF is_ascii_uppercase(coord[i])
    THEN IF in_row
         THEN [ok |-> FALSE, col_part |-> col_part, row_part |-> row_part]
         ELSE ScanLoop(coord, i + 1, col_part \o <<coord[i]>>, row_part, in_row)
    ELSE IF is_ascii_digit(coord[i])
    THEN ScanLoop(coord, i + 1, col_part, row_part \o <<coord[i]>>, TRUE)
    ELSE [ok |-> FALSE, col_part |-> col_part, row_part |-> row_part]

\* str::parse::<usize>, the digits from index i on: checked_mul(10) and
\* checked_add(digit), an error on a character that is no digit.
RECURSIVE ParseDigits(_, _, _)
ParseDigits(s, i, result) ==
    IF i > Len(s) THEN Ok(result)
    ELSE IF ~is_ascii_digit(s[i]) THEN [tag |-> "Err", kind |-> "InvalidDigit"]
    ELSE LET next == NatMulAdd(result, 10, s[i] - Char0)
         IN  IF FitsUsize(next) THEN ParseDigits(s, i + 1, next)
             ELSE [tag |-> "Err", kind |-> "PosOverflow"]

\* A plausible slip: a digit run with a leading zero is refused.
parse_usize_no_leading_zero(s) ==
    IF s = << >> THEN [tag |-> "Err", kind |-> "Empty"]
    ELSE IF Len(s) > 1 /\ s[1] = Char0 THEN [tag |-> "Err", kind |-> "InvalidDigit"]
    ELSE ParseDigits(s, 1, Zero)

\* str::parse::<usize>: an optional leading '+', then decimal digits.
parse_usize(s) ==
    IF s = << >> THEN [tag |-> "Err", kind |-> "Empty"]
    ELSE IF s[1] = Char0 - 5
    THEN IF Len(s) = 1 THEN [tag |-> "Err", kind |-> "InvalidDigit"]
         ELSE ParseDigits(s, 2, Zero)
    ELSE ParseDigits(s, 1, Zero)

\* A plausible slip: the pair returned column first.
coordinate_from_string_swapped(coord) ==
    LET scan == ScanLoop(coord, 1, << >>, << >>, FALSE)
    IN  IF ~scan.ok THEN invalid_cell_reference(coord)
        ELSE IF scan.col_part = << >> \/ scan.row_part = << >>
        THEN invalid_cell_reference(coord)
        ELSE LET col == column_index_from_string(scan.col_part)
             IN  IF col.tag # "Ok" THEN col
                 ELSE LET row == parse_usize(scan.row_part)
                      IN  IF row.tag # "Ok" THEN invalid_cell_reference(coord)
                          ELSE IF row.val = Zero THEN invalid_cell_reference(coord)
                          ELSE Ok(<<col.val, row.val>>)

coordinate_from_string(coord) ==
    LET scan == ScanLoop(coord, 1, << >>, << >>, FALSE)
    IN  IF ~scan.ok THEN invalid_cell_reference(coord)
        ELSE IF scan.col_part = << >> \/ scan.row_part = << >>
        THEN invalid_cell_reference(coord)
        ELSE LET col == column_index_from_string(scan.col_part)
             IN  \* the ? operator: an error (or a panic) leaves the function
                 IF col.tag # "Ok" THEN col
                 ELSE LET row == parse_usize(scan.row_part)
                      IN  IF row.tag # "Ok" THEN invalid_cell_reference(coord)
                          ELSE IF row.val = Zero THEN invalid_cell_reference(coord)
                          ELSE Ok(<<row.val, col.val>>)

\* Display for usize: the decimal digits, "0" for zero.
RECURSIVE DecimalDigits(_)
DecimalDigits(n) ==
    IF n = Zero THEN << >>
    ELSE DecimalDigits(NatDiv(n, 10)) \o <<Char0 + NatMod(n, 10)>>

\* A plausible slip: a digit loop that prints nothing for 0.
usize_to_string_blank_zero(n) == DecimalDigits(n)

usize_to_string(n) == IF n = Zero THEN <<Char0>> ELSE DecimalDigits(n)

\* A plausible slip: the arguments of format! in the other order.
coordinate_to_string_row_first(row, col) ==
    usize_to_string(row) \o get_column_letter(col)

coordinate_to_string(row, col) ==
    get_column_letter(col) \o usize_to_string(row)

----------------------------------------------------------------------------
(* src/compat/cell.rs *)

\* enum CellValue
CellString(s) == [kind |-> "String", s |-> s]
Number(n) == [kind |-> "Number", n |-> n]
Boolean(b) == [kind |-> "Boolean", b |-> b]
Empty == [kind |-> "Empty"]

\* A plausible slip: the Cell given the 0-indexed position of the store.
CellNewZeroBased(row, column, value) ==
    [row |-> NatPred(row), column |-> NatPred(column), value |-> value]

\* Cell::new
CellNew(row, column, value) == [row |-> row, column |-> column, value |-> value]

\* Cell::coordinate
coordinate(cell) == coordinate_to_string(cell.row, cell.column)

\* Cell::set_value: the cell is the caller's own value
set_value(cell, value) == [cell EXCEPT !.value = value]

NoCell == [kind |-> "NoCell"]

----------------------------------------------------------------------------
(* calamine::Data and Range<Data>, as src/compat/worksheet.rs uses them *)

\* An f64 is its sign, the magnitude of its integer part and, as text, its
\* fraction digits; an i64 is its sign and magnitude.
F64(neg, mag, frac) == [neg |-> neg, mag |-> mag, frac |-> frac]
I64(neg, mag) == [neg |-> neg, mag |-> mag]

RECURSIVE BitLenInt(_)
BitLenInt(n) == IF n = 0 THEN 0 ELSE 1 + BitLenInt(n \div 2)
\* LimbBase = 2^16
NatBitLen(x) == IF x = << >> THEN 0 ELSE 16 * (Len(x) - 1) + BitLenInt(x[Len(x)])

\* The integer of at most 64 bits rounded to the 53 significant bits of an
\* f64, ties to even.
RoundToF64(mag) ==
    IF NatBitLen(mag) <= 53 THEN mag
    ELSE LET d    == 2 ^ (NatBitLen(mag) - 53)
             q    == NatDiv(mag, d)
             r    == NatMod(mag, d)
             up   == r > d \div 2 \/ (r = d \div 2 /\ q[1] % 2 = 1)
         IN  NatMulAdd(IF up THEN NatSucc(q) ELSE q, d, 0)

\* A plausible slip: the integer taken over as it is, with no conversion.
AsF64Exact(i) == F64(i.neg, i.mag, "")

\* *i as f64
AsF64(i) == F64(i.neg, RoundToF64(i.mag), "")

DataString(s) == [data |-> "String", s |-> s]
DataFloat(f) == [data |-> "Float", f |-> f]
DataInt(i) == [data |-> "Int", i |-> i]
DataBool(b) == [data |-> "Bool", b |-> b]
DataEmpty == [data |-> "Empty"]
DataError(e) == [data |-> "Error", e |-> e]
DataDateTime(d) == [data |-> "DateTime", dt |-> d]
DataDateTimeIso(d) == [data |-> "DateTimeIso", iso |-> d]
DataDurationIso(d) == [data |-> "DurationIso", dur |-> d]

EmptyRange == [height |-> 0, width |-> 0, cells |-> << >>]

\* Range::get_size
get_size(r) == <<NatFromInt(r.height), NatFromInt(r.width)>>

\* A plausible slip: a position outside the size is folded back into it.
RangeGetFolded(r, pos) ==
    IF r.height = 0 \/ r.width = 0 THEN [some |-> FALSE]
    ELSE [some |-> TRUE,
          data |-> r.cells[<<NatMod(pos[1], r.height), NatMod(pos[2], r.width)>>]]

\* Range::get((row, col)): None outside the range's size
RangeGet(r, pos) ==
    IF /\ NatIsSmall(pos[1]) /\ NatToInt(pos[1]) < r.height
       /\ NatIsSmall(pos[2]) /\ NatToInt(pos[2]) < r.width
    THEN [some |-> TRUE, data |-> r.cells[<<NatToInt(pos[1]), NatToInt(pos[2])>>]]
    ELSE [some |-> FALSE]

----------------------------------------------------------------------------
(* src/compat/worksheet.rs *)

\* The match of Worksheet::cell on the store's entry.
ConvertData(data) ==
    CASE data.data = "String" -> CellString(data.s)
      [] data.data = "Float" -> Number(data.f)
      [] data.data = "Int" -> Number(AsF64(data.i))
      [] data.data = "Bool" -> Boolean(data.b)
      [] data.data \in {"Empty", "Error", "DateTime", "DateTimeIso", "DurationIso"}
             -> Empty

\* A plausible slip: only a zero row is refused.
cell_row_check_only(row, column) ==
    IF row = Zero
    THEN invalid_cell_reference(coordinate_to_string(row, column))
    ELSE LET got == RangeGet(range, <<NatPred(row), IF column = Zero THEN Zero ELSE NatPred(column)>>)
         IN  Ok(CellNew(row, column,
                        IF got.some THEN ConvertData(got.data) ELSE Empty))

\* A plausible slip: the refused position formatted as (column, row).
cell_reference_swapped(row, column) ==
    IF row = Zero \/ column = Zero
    THEN invalid_cell_reference(coordinate_to_string(column, row))
    ELSE LET got == RangeGet(range, <<NatPred(row), NatPred(column)>>)
         IN  Ok(CellNew(row, column,
                        IF got.some THEN ConvertData(got.data) ELSE Empty))

\* Worksheet::cell
cell(row, column) ==
    IF row = Zero \/ column = Zero
    THEN invalid_cell_reference(coordinate_to_string(row, column))
    ELSE LET row_idx == NatPred(row)
             col_idx == NatPred(column)
             got     == RangeGet(range, <<row_idx, col_idx>>)
         IN  Ok(CellNew(row, column,
                        IF got.some THEN ConvertData(got.data) ELSE Empty))

\* The positions Worksheet::cell reads with range.get.
cell_reads(row, column) ==
    IF row = Zero \/ column = Zero THEN {}
    ELSE {<<NatPred(row), NatPred(column)>>}

\* A plausible slip: the pair of the parser handed on as (column, row).
get_cell_swapped(coord) ==
    LET parsed == coordinate_from_string(coord)
    IN  IF parsed.tag # "Ok" THEN parsed
        ELSE cell(parsed.val[2], parsed.val[1])

\* Worksheet::get_cell
get_cell(coord) ==
    LET parsed == coordinate_from_string(coord)
    IN  IF parsed.tag # "Ok" THEN parsed
        ELSE cell(parsed.val[1], parsed.val[2])

get_cell_reads(coord) ==
    LET parsed == coordinate_from_string(coord)
    IN  IF parsed.tag # "Ok" THEN {}
        ELSE cell_reads(parsed.val[1], parsed.val[2])

\* A plausible slip: the first component of the size taken for the columns.
max_column_as_rows == get_size(range)[1]

\* Worksheet::dimensions, max_row, max_column
dimensions == get_size(range)
max_row == get_size(range)[1]
max_column == get_size(range)[2]

\* Option<Vec<Cell>>
Some(v) == [tag |-> "Some", val |-> v]
None == [tag |-> "NoItem"]

IterIds == {1, 2}
NoIter == [live |-> FALSE]

\* Worksheet::iter_rows: the RowIterator it builds
iter_rows(min_row, max_r, min_col, max_col) ==
    [live |-> TRUE, current_row |-> min_row, max_row |-> max_r,
     min_col |-> min_col, max_col |-> max_col]

\* The loop of RowIterator::next over col..=last: the cells that are Ok.
RECURSIVE RowCells(_, _, _)
RowCells(row, col, last) ==
    IF ~NatLeq(col, last) THEN << >>
    ELSE LET got  == cell(row, col)
             here == IF got.tag = "Ok" THEN <<got.val>> ELSE << >>
         IN  IF col = last THEN here
             ELSE here \o RowCells(row, NatSucc(col), last)

\* A plausible slip: the loop gives up at the first cell that is refused.
RECURSIVE RowCellsUntilErr(_, _, _)
RowCellsUntilErr(row, col, last) ==
    IF ~NatLeq(col, last) THEN << >>
    ELSE LET got == cell(row, col)
         IN  IF got.tag # "Ok" THEN << >>
             ELSE IF col = last THEN <<got.val>>
             ELSE <<got.val>> \o RowCellsUntilErr(row, NatSucc(col), last)

\* The positions one RowIterator::next reads.
RECURSIVE RowReads(_, _, _)
RowReads(row, col, last) ==
    IF ~NatLeq(col, last) THEN {}
    ELSE cell_reads(row, col)
             \cup (IF col = last THEN {} ELSE RowReads(row, NatSucc(col), last))

\* self.current_row += 1: under overflow checks the addition panics at
\* usize::MAX, without them it wraps.
next_overflows(it) == ~FitsUsize(NatSucc(it.current_row))

\* A plausible slip: the cursor stays where it is.
next_cursor_stuck(it) == it.current_row

next_cursor(it) == WrapUsize(NatSucc(it.current_row))

\* RowIterator::next: what it returns
next(it) ==
    IF ~NatLeq(it.current_row, it.max_row) THEN None
    ELSE IF next_overflows(it) /\ overflow_checks THEN Panic
    ELSE Some(RowCells(it.current_row, it.min_col, it.max_col))

\* A plausible slip: the cursor advanced before the end test, so that it
\* moves on calls that return None too.
next_self_past_end(it) ==
    IF next_overflows(it) /\ overflow_checks THEN it
    ELSE [it EXCEPT !.current_row = next_cursor(it)]

\* RowIterator::next: the iterator it leaves
next_self(it) ==
    IF ~NatLeq(it.current_row, it.max_row) THEN it
    ELSE IF next_overflows(it) /\ overflow_checks THEN it
    ELSE [it EXCEPT !.current_row = next_cursor(it)]

\* A plausible slip: one cursor shared by the iterators of a worksheet.
advance_all(its, i) ==
    [j \in DOMAIN its |-> IF its[j].live THEN next_self(its[j]) ELSE its[j]]

\* Each RowIterator owns its cursor: next(&mut self) on the i-th touches
\* no other.
advance(its, i) == [its EXCEPT ![i] = next_self(its[i])]

\* The run of an iterator as its caller sees it: the iterator as iter_rows
\* built it and what its next calls returned, in order.
NoRun == [start |-> NoIter, items |-> << >>]

----------------------------------------------------------------------------
(* The inputs the calls are checked on *)

MaxLen == 3            \* strings over Alphabet: every one up to this length
MaxLetters == 3        \* letter runs over Letters: every one up to this length
MaxDigits == 3         \* digit runs over Digits: every one up to this length
MaxZeros == 2          \* leading zeros put before a digit run
LongLen == 15          \* the longest run of one repeated letter
MaxRoundTripCol == 20000
MaxRow == 12
MaxCol == 60

Letters == {CharA, CharA + 1, CharZ}              \* A B Z
Digits == {Char0, Char0 + 1, Char9}               \* 0 1 9
Alphabet == Letters \cup Digits \cup {CharA + 32, Char0 - 16}    \* a, space

SeqsUpTo(S, n) == UNION {[1..k -> S] : k \in 0..n}
Repeat(c, n) == [i \in 1..n |-> c]
Text(digits) == [i \in 1..Len(digits) |-> Char0 + digits[i]]

Str(idx) == [i \in 1..Len(idx) |-> CharA + idx[i] - 1]

XFD == <<CharA + 23, CharA + 5, CharA + 3>>
\* LimbBase^NumLimbs - 1 and LimbBase^NumLimbs in decimal
UsizeMaxText == Text(<<1,8,4,4,6,7,4,4,0,7,3,7,0,9,5,5,1,6,1,5>>)
UsizeMaxPlus1Text == Text(<<1,8,4,4,6,7,4,4,0,7,3,7,0,9,5,5,1,6,1,6>>)

LongRuns == {Repeat(c, n) : c \in {CharA, CharA + 7, CharZ}, n \in 13..LongLen}
LetterRuns == (SeqsUpTo(Letters, MaxLetters) \ {<< >>}) \cup LongRuns \cup {XFD}
DigitRuns ==
    (SeqsUpTo(Digits, MaxDigits) \ {<< >>})
        \cup {Text(<<2,6>>), Text(<<1,0,0>>), Text(<<1,0,4,8,5,7,6>>),
              UsizeMaxText, UsizeMaxPlus1Text, Repeat(Char9, 20)}

ColumnStrings ==
    SeqsUpTo(Alphabet, MaxLen) \cup LetterRuns
        \cup {l \o <<c>> : l \in LongRuns, c \in {Char0 + 1, CharA + 32}}

CoordinateStrings ==
    SeqsUpTo(Alphabet, MaxLen)
        \cup {l \o Repeat(Char0, z) \o d :
                  l \in LetterRuns, z \in 0..MaxZeros, d \in DigitRuns}

ColumnNumbers ==
    {NatFromInt(n) : n \in 0..MaxRoundTripCol} \cup {USIZE_MAX, NatPred(USIZE_MAX)}

RowArgs ==
    {NatFromInt(n) : n \in 0..MaxRow}
        \cup {NatFromInt(100), NatFromInt(1048576), USIZE_MAX}
ColArgs ==
    {NatFromInt(n) : n \in 0..MaxCol}
        \cup {NatFromInt(n) : n \in {702, 703, 16384, 18278, 18279}} \cup {USIZE_MAX}

----------------------------------------------------------------------------
Init ==
    /\ overflow_checks \in BOOLEAN
    /\ call \in [op : {"column_index_from_string"}, col : ColumnStrings]
           \cup [op : {"get_column_letter"}, col : ColumnNumbers]
           \cup [op : {"coordinate_from_string"}, coord : CoordinateStrings]
           \cup [op : {"coordinate_to_string"}, row : RowArgs, col : ColArgs]
    /\ ret = NoReturn
    /\ title = ""
    /\ range = EmptyRange
    /\ held = NoCell
    /\ queried = {}
    /\ iters = [i \in IterIds |-> NoIter]
    /\ yielded = [i \in IterIds |-> NoRun]
    /\ workbook = << >>
    /\ reader = << >>

CallColumnIndexFromString ==
    /\ call.op = "column_index_from_string"
    /\ ret = NoReturn
    /\ ret' = column_index_from_string(call.col)
    /\ UNCHANGED <<overflow_checks, call, workbook, reader>>
    /\ UNCHANGED gridvars

CallGetColumnLetter ==
    /\ call.op = "get_column_letter"
    /\ ret = NoReturn
    /\ ret' = Value(get_column_letter(call.col))
    /\ UNCHANGED <<overflow_checks, call, workbook, reader>>
    /\ UNCHANGED gridvars

CallCoordinateFromString ==
    /\ call.op = "coordinate_from_string"
    /\ ret = NoReturn
    /\ ret' = coordinate_from_string(call.coord)
    /\ UNCHANGED <<overflow_checks, call, workbook, reader>>
    /\ UNCHANGED gridvars

CallCoordinateToString ==
    /\ call.op = "coordinate_to_string"
    /\ ret = NoReturn
    /\ ret' = Value(coordinate_to_string(call.row, call.col))
    /\ UNCHANGED <<overflow_checks, call, workbook, reader>>
    /\ UNCHANGED gridvars

Next ==
    \/ CallColumnIndexFromString
    \/ CallGetColumnLetter
    \/ CallCoordinateFromString
    \/ CallCoordinateToString

Spec == Init /\ [][Next]_vars

----------------------------------------------------------------------------
(* The worksheets and the arguments the grid calls are checked on *)

MaxStoreRows == 2      \* the stores have up to this many rows
MaxStoreCols == 2      \* and up to this many columns
MaxCellRow == 3        \* cell(row, col): every row and column up to these
MaxCellCol == 4

\* 2^53 + 1, the smallest positive integer that is no f64
TwoTo53Plus1 == <<1, 0, 0, 32>>

\* One entry of every variant of Data.
DataKinds ==
    << DataString("Hello"), DataFloat(F64(FALSE, NatFromInt(42), "")),
       DataBool(TRUE), DataInt(I64(FALSE, NatFromInt(7))), DataEmpty,
       DataError("Div0"), DataDateTime("45000.5"),
       DataDateTimeIso("2024-01-01T00:00:00"), DataDurationIso("PT1H"),
       DataInt(I64(TRUE, TwoTo53Plus1)), DataFloat(F64(FALSE, NatFromInt(3), "14")) >>

\* The h x w store whose entries run through DataKinds from its k-th on.
StoreOf(h, w, k) ==
    [height |-> h, width |-> w,
     cells |-> [p \in (0..(h - 1)) \X (0..(w - 1)) |->
                   DataKinds[((p[1] * w + p[2] + k) % Len(DataKinds)) + 1]]]

\* create_test_range() of the tests: 2 rows, 3 columns
TestRange ==
    [height |-> 2, width |-> 3,
     cells |-> [p \in (0..1) \X (0..2) |->
                   CASE p = <<0, 0>> -> DataString("Hello")
                     [] p = <<0, 1>> -> DataFloat(F64(FALSE, NatFromInt(42), ""))
                     [] p = <<0, 2>> -> DataBool(TRUE)
                     [] p = <<1, 0>> -> DataString("World")
                     [] p = <<1, 1>> -> DataFloat(F64(FALSE, NatFromInt(3), "14"))
                     [] p = <<1, 2>> -> DataBool(FALSE)]]

Stores ==
    {EmptyRange, TestRange}
        \cup {StoreOf(h, w, 0) : h \in 1..MaxStoreRows, w \in 1..MaxStoreCols}
        \cup {StoreOf(MaxStoreRows, MaxStoreCols, k) : k \in 1..(Len(DataKinds) - 1)}

CellRows == {NatFromInt(n) : n \in 0..MaxCellRow} \cup {NatFromInt(10), USIZE_MAX}
CellCols == {NatFromInt(n) : n \in 0..MaxCellCol} \cup {NatFromInt(10), USIZE_MAX}

\* A1 B2 C2 J10 A01 XFD1048576, a row of usize::MAX, and strings that do
\* not parse: A0 0A "" A 1 a1, a row above usize::MAX, a column above it.
GetCellStrings ==
    { Str(<<1>>) \o Text(<<1>>), Str(<<2>>) \o Text(<<2>>), Str(<<3>>) \o Text(<<2>>),
      Str(<<10>>) \o Text(<<1, 0>>), Str(<<1>>) \o Text(<<0, 1>>),
      XFD \o Text(<<1, 0, 4, 8, 5, 7, 6>>), Str(<<1>>) \o UsizeMaxText,
      Str(<<1>>) \o Text(<<0>>), Text(<<0>>) \o Str(<<1>>), << >>, Str(<<1>>),
      Text(<<1>>), <<CharA + 32, Char0 + 1>>, Str(<<1>>) \o UsizeMaxPlus1Text,
      Repeat(CharA + 7, 14) \o Text(<<1>>) }

SetValues ==
    {CellString("x"), Number(F64(FALSE, NatFromInt(1), "")), Boolean(TRUE), Empty}

Unit == [tag |-> "Unit"]
Alive == ret # Panic

----------------------------------------------------------------------------
(* The worksheet: Worksheet::new, then lookups in any order *)

GridInit ==
    /\ overflow_checks \in BOOLEAN
    /\ call = [op |-> "new"]
    /\ ret = NoReturn
    /\ title = "Sheet1"
    /\ range \in Stores
    /\ held = NoCell
    /\ queried = {}
    /\ iters = [i \in IterIds |-> NoIter]
    /\ yielded = [i \in IterIds |-> NoRun]
    /\ workbook = << >>
    /\ reader = << >>

CallCell(rows, cols) ==
    /\ Alive
    /\ \E row \in rows, column \in cols :
           /\ call' = [op |-> "cell", row |-> row, column |-> column]
           /\ ret' = cell(row, column)
           /\ queried' = cell_reads(row, column)
    /\ held' = IF ret'.tag = "Ok" THEN ret'.val ELSE NoCell
    /\ UNCHANGED <<overflow_checks, title, range, iters, yielded, workbook, reader>>

CallGetCell(coords) ==
    /\ Alive
    /\ \E coord \in coords :
           /\ call' = [op |-> "get_cell", coord |-> coord]
           /\ ret' = get_cell(coord)
           /\ queried' = get_cell_reads(coord)
    /\ held' = IF ret'.tag = "Ok" THEN ret'.val ELSE NoCell
    /\ UNCHANGED <<overflow_checks, title, range, iters, yielded, workbook, reader>>

CallDimensions ==
    /\ Alive
    /\ call' = [op |-> "dimensions"]
    /\ ret' = Value(dimensions)
    /\ queried' = {}
    /\ UNCHANGED <<overflow_checks, title, range, held, iters, yielded, workbook, reader>>

CallMaxRow ==
    /\ Alive
    /\ call' = [op |-> "max_row"]
    /\ ret' = Value(max_row)
    /\ queried' = {}
    /\ UNCHANGED <<overflow_checks, title, range, held, iters, yielded, workbook, reader>>

CallMaxColumn ==
    /\ Alive
    /\ call' = [op |-> "max_column"]
    /\ ret' = Value(max_column)
    /\ queried' = {}
    /\ UNCHANGED <<overflow_checks, title, range, held, iters, yielded, workbook, reader>>

\* A plausible slip: the Cell writes through to the store it was read from.
CallSetValueWriteThrough(values) ==
    /\ Alive
    /\ held # NoCell
    /\ \E value \in values :
           /\ call' = [op |-> "set_value", value |-> value]
           /\ held' = set_value(held, value)
    /\ ret' = Unit
    /\ queried' = {}
    /\ range' = LET pos == <<NatPred(held.row), NatPred(held.column)>>
                IN  IF RangeGet(range, pos).some
                    THEN [range EXCEPT !.cells[<<NatToInt(pos[1]), NatToInt(pos[2])>>]
                                           = DataString("written")]
                    ELSE range
    /\ UNCHANGED <<overflow_checks, title, iters, yielded, workbook, reader>>

CallSetValue(values) ==
    /\ Alive
    /\ held # NoCell
    /\ \E value \in values :
           /\ call' = [op |-> "set_value", value |-> value]
           /\ held' = set_value(held, value)
    /\ ret' = Unit
    /\ queried' = {}
    /\ UNCHANGED <<overflow_checks, title, range, iters, yielded, workbook, reader>>

GridNext ==
    \/ CallCell(CellRows, CellCols)
    \/ CallGetCell(GetCellStrings)
    \/ CallDimensions
    \/ CallMaxRow
    \/ CallMaxColumn
    \/ CallSetValue(SetValues)

SpecGrid == GridInit /\ [][GridNext]_vars

----------------------------------------------------------------------------
(* Row iteration: iter_rows, then next until the caller stops *)

MaxNext == 4           \* next calls made on one iterator

IterStores == {EmptyRange, TestRange, StoreOf(MaxStoreRows, MaxStoreCols, 0)}

IterRowBounds ==
    {NatFromInt(n) : n \in 0..3} \cup {NatPred(USIZE_MAX), USIZE_MAX}

\* Column ranges: 1..=1, 1..=3, 2..=3, one past the test store, with
\* column 0, empty, and ending at usize::MAX.
IterColRanges ==
    { <<NatFromInt(1), NatFromInt(1)>>, <<NatFromInt(1), NatFromInt(3)>>,
      <<NatFromInt(2), NatFromInt(3)>>, <<NatFromInt(3), NatFromInt(4)>>,
      <<Zero, NatFromInt(1)>>, <<Zero, Zero>>, <<NatFromInt(3), NatFromInt(1)>>,
      <<NatPred(USIZE_MAX), USIZE_MAX>> }

IterArgs ==
    {<<lo, hi, cr[1], cr[2]>> : lo \in IterRowBounds, hi \in IterRowBounds,
                                cr \in IterColRanges}

IterInit ==
    /\ overflow_checks \in BOOLEAN
    /\ call = [op |-> "new"]
    /\ ret = NoReturn
    /\ title = "Sheet1"
    /\ range \in IterStores
    /\ held = NoCell
    /\ queried = {}
    /\ iters = [i \in IterIds |-> NoIter]
    /\ yielded = [i \in IterIds |-> NoRun]
    /\ workbook = << >>
    /\ reader = << >>

CallIterRows(ids, args) ==
    /\ Alive
    /\ \E i \in ids, a \in args :
           /\ ~iters[i].live
           /\ call' = [op |-> "iter_rows", id |-> i, args |-> a]
           /\ iters' = [iters EXCEPT ![i] = iter_rows(a[1], a[2], a[3], a[4])]
           /\ yielded' = [yielded EXCEPT ![i] = [start |-> iters'[i], items |-> << >>]]
    /\ ret' = Unit
    /\ queried' = {}
    /\ UNCHANGED <<overflow_checks, title, range, held, workbook, reader>>

CallNext(ids, limit) ==
    /\ Alive
    /\ \E i \in ids :
           /\ iters[i].live
           /\ Len(yielded[i].items) < limit
           /\ call' = [op |-> "next", id |-> i]
           /\ ret' = next(iters[i])
           /\ iters' = advance(iters, i)
           /\ yielded' = IF ret'.tag = "Panic" THEN yielded
                         ELSE [yielded EXCEPT ![i].items = Append(@, ret')]
           /\ queried' = IF ret'.tag = "Some"
                         THEN RowReads(iters[i].current_row, iters[i].min_col,
                                       iters[i].max_col)
                         ELSE {}
    /\ held' = IF ret'.tag = "Some" /\ ret'.val # << >> THEN ret'.val[1] ELSE held
    /\ UNCHANGED <<overflow_checks, title, range, workbook, reader>>

IterNext ==
    \/ CallIterRows({1}, IterArgs)
    \/ CallNext({1}, MaxNext)

SpecIter == IterInit /\ [][IterNext]_vars

----------------------------------------------------------------------------
(* Every operation of the worksheet, on two iterators, in any order *)

SharedMaxNext == 3

SharedStores == {EmptyRange, TestRange}
SharedRows == {Zero, NatFromInt(1), NatFromInt(3)}
SharedCols == {Zero, NatFromInt(2)}
\* B1 and A0
SharedCoords == {Str(<<2>>) \o Text(<<1>>), Str(<<1>>) \o Text(<<0>>)}
SharedValues == {CellString("x")}
\* iter_rows(1, 2, 1, 2), iter_rows(2, 2, 0, 1), iter_rows(MAX, MAX, 1, 1)
SharedArgs ==
    { <<NatFromInt(1), NatFromInt(2), NatFromInt(1), NatFromInt(2)>>,
      <<NatFromInt(2), NatFromInt(2), Zero, NatFromInt(1)>>,
      <<USIZE_MAX, USIZE_MAX, NatFromInt(1), NatFromInt(1)>> }

SharedInit ==
    /\ overflow_checks \in BOOLEAN
    /\ call = [op |-> "new"]
    /\ ret = NoReturn
    /\ title = "Sheet1"
    /\ range \in SharedStores
    /\ held = NoCell
    /\ queried = {}
    /\ iters = [i \in IterIds |-> NoIter]
    /\ yielded = [i \in IterIds |-> NoRun]
    /\ workbook = << >>
    /\ reader = << >>

SharedNext ==
    \/ CallCell(SharedRows, SharedCols)
    \/ CallGetCell(SharedCoords)
    \/ CallDimensions
    \/ CallMaxRow
    \/ CallMaxColumn
    \/ CallSetValue(SharedValues)
    \/ CallIterRows(IterIds, SharedArgs)
    \/ CallNext(IterIds, SharedMaxNext)

SpecShared == SharedInit /\ [][SharedNext]_vars

----------------------------------------------------------------------------
(* The calls that can refuse a reference: the two parsers, cell, get_cell *)

MaxRefLen == 2         \* strings over Alphabet: every one up to this length

\* AB1a, A1B, 14 letters H, and the same followed by a
RefStrings ==
    SeqsUpTo(Alphabet, MaxRefLen)
        \cup { <<CharA, CharA + 1, Char0 + 1, CharA + 32>>,
               <<CharA, Char0 + 1, CharA + 1>>,
               Repeat(CharA + 7, 14), Repeat(CharA + 7, 14) \o <<CharA + 32>> }

RefsInit ==
    /\ overflow_checks \in BOOLEAN
    /\ call \in [op : {"column_index_from_string"}, col : RefStrings]
           \cup [op : {"coordinate_from_string"}, coord : RefStrings]
           \cup {[op |-> "new"]}
    /\ ret = NoReturn
    /\ title = "Sheet1"
    /\ range \in SharedStores
    /\ held = NoCell
    /\ queried = {}
    /\ iters = [i \in IterIds |-> NoIter]
    /\ yielded = [i \in IterIds |-> NoRun]
    /\ workbook = << >>
    /\ reader = << >>

RefsNext ==
    \/ CallColumnIndexFromString
    \/ CallCoordinateFromString
    \/ CallCell(CellRows, CellCols)
    \/ CallGetCell(GetCellStrings \cup RefStrings)

SpecRefs == RefsInit /\ [][RefsNext]_vars

----------------------------------------------------------------------------
(* src/writer.rs: Writer over a rust_xlsxwriter Workbook *)

\* Excel's limits, which rust_xlsxwriter enforces on the u32 row and the
\* u16 column it is given.
ROW_MAX == 1048576
COL_MAX == 16384

\* row as u32, col as u16: the low 32 and the low 16 bits
AsU32(x) == NatNorm(SubSeq(x, 1, IF Len(x) < 2 THEN Len(x) ELSE 2))
AsU16(x) == NatNorm(SubSeq(x, 1, IF Len(x) < 1 THEN Len(x) ELSE 1))

\* Worksheet::write_*(row: u32, col: u16, ..) of rust_xlsxwriter: refused
\* beyond the limits, else the cell is set.
LimitError == [tag |-> "Err", error |-> "RowColumnLimitError"]
UnknownWorksheet == [tag |-> "Err", error |-> "UnknownWorksheetNameOrIndex"]

SheetWrite(ws, row32, col16, value) ==
    IF ~NatLess(row32, NatFromInt(ROW_MAX)) \/ ~NatLess(col16, NatFromInt(COL_MAX))
    THEN [ret |-> LimitError, ws |-> ws]
    ELSE [ret |-> Ok(Unit),
          ws  |-> {c \in ws : c.row # row32 \/ c.col # col16}
                      \cup {[row |-> row32, col |-> col16, value |-> value]}]

\* Writer::write_string, write_number, write_boolean: worksheet_from_index,
\* then the write with row as u32 and col as u16.
write_cell(wb, sheet, row, col, value) ==
    IF ~NatLess(sheet, NatFromInt(Len(wb)))
    THEN [ret |-> UnknownWorksheet, wb |-> wb]
    ELSE LET k   == NatToInt(sheet) + 1
             out == SheetWrite(wb[k], AsU32(row), AsU16(col), value)
         IN  [ret |-> out.ret, wb |-> [wb EXCEPT ![k] = out.ws]]

MaxWriterSheets == 1   \* worksheets added to one Writer

WriterSheets == {Zero, NatFromInt(1)}
\* 0, the limit, 2^32 + 5, usize::MAX
WriterRows == {Zero, NatFromInt(ROW_MAX), <<5, 0, 1>>, USIZE_MAX}
\* 0, the limit, 2^16, usize::MAX
WriterCols == {Zero, NatFromInt(COL_MAX), <<0, 1>>, USIZE_MAX}

\* Writer::new
WriterInit ==
    /\ overflow_checks \in BOOLEAN
    /\ call = [op |-> "new"]
    /\ ret = NoReturn
    /\ title = ""
    /\ range = EmptyRange
    /\ held = NoCell
    /\ queried = {}
    /\ iters = [i \in IterIds |-> NoIter]
    /\ yielded = [i \in IterIds |-> NoRun]
    /\ workbook = << >>
    /\ reader = << >>

CallAddWorksheet ==
    /\ Len(workbook) < MaxWriterSheets
    /\ call' = [op |-> "add_worksheet"]
    /\ workbook' = Append(workbook, {})
    /\ ret' = Ok(Unit)
    /\ UNCHANGED <<overflow_checks, reader>>
    /\ UNCHANGED gridvars

CallWriteString ==
    /\ \E sheet \in WriterSheets, row \in WriterRows, col \in WriterCols,
          value \in {CellString("x")} :
           LET out == write_cell(workbook, sheet, row, col, value)
           IN  /\ call' = [op |-> "write_string", sheet |-> sheet, row |-> row, col |-> col]
               /\ ret' = out.ret
               /\ workbook' = out.wb
    /\ UNCHANGED <<overflow_checks, reader>>
    /\ UNCHANGED gridvars

CallWriteNumber ==
    /\ \E sheet \in WriterSheets, row \in WriterRows, col \in WriterCols,
          value \in {Number(F64(FALSE, NatFromInt(1), ""))} :
           LET out == write_cell(workbook, sheet, row, col, value)
           IN  /\ call' = [op |-> "write_number", sheet |-> sheet, row |-> row, col |-> col]
               /\ ret' = out.ret
               /\ workbook' = out.wb
    /\ UNCHANGED <<overflow_checks, reader>>
    /\ UNCHANGED gridvars

CallWriteBoolean ==
    /\ \E sheet \in WriterSheets, row \in WriterRows, col \in WriterCols,
          value \in {Boolean(TRUE)} :
           LET out == write_cell(workbook, sheet, row, col, value)
           IN  /\ call' = [op |-> "write_boolean", sheet |-> sheet, row |-> row, col |-> col]
               /\ ret' = out.ret
               /\ workbook' = out.wb
    /\ UNCHANGED <<overflow_checks, reader>>
    /\ UNCHANGED gridvars

WriterNext ==
    \/ CallAddWorksheet
    \/ CallWriteString
    \/ CallWriteNumber
    \/ CallWriteBoolean

SpecWriter == WriterInit /\ [][WriterNext]_vars

----------------------------------------------------------------------------
(* src/compat/workbook.rs: Workbook over a Reader *)

Sheet(name, loads, r) == [name |-> name, loads |-> loads, range |-> r]

\* Error::SheetNotFound { name } and Error::Other(message)
sheet_not_found(name) == [tag |-> "Err", error |-> "SheetNotFound", name |-> name]
Other(message, arg) == [tag |-> "Err", error |-> "Other", message |-> message, arg |-> arg]

\* Worksheet::new(title, range)
WorksheetNew(t, r) == [title |-> t, range |-> r]

\* Reader::sheet_names, Workbook::sheetnames
sheetnames(rd) == [i \in 1..Len(rd) |-> rd[i].name]

\* Reader::worksheet_range: the range of the first sheet of that name;
\* whatever calamine fails with becomes SheetNotFound.
worksheet_range(rd, name) ==
    LET found == {i \in 1..Len(rd) : rd[i].name = name}
    IN  IF found = {} THEN sheet_not_found(name)
        ELSE LET i == CHOOSE k \in found : \A j \in found : k <= j
             IN  IF rd[i].loads THEN Ok(rd[i].range) ELSE sheet_not_found(name)

\* Workbook::get_sheet_by_name
get_sheet_by_name(rd, name) ==
    LET got == worksheet_range(rd, name)
    IN  IF got.tag # "Ok" THEN got ELSE Ok(WorksheetNew(name, got.val))

\* Workbook::active
active(rd) ==
    IF sheetnames(rd) = << >> THEN Other("Workbook has no worksheets", << >>)
    ELSE get_sheet_by_name(rd, sheetnames(rd)[1])

\* A plausible slip: the index taken as 1-based.
get_sheet_by_index_one_based(rd, index) ==
    IF index = Zero \/ ~NatLeq(index, NatFromInt(Len(rd)))
    THEN Other("Sheet index {index} out of bounds", usize_to_string(index))
    ELSE get_sheet_by_name(rd, sheetnames(rd)[NatToInt(index)])

\* Workbook::get_sheet_by_index
get_sheet_by_index(rd, index) ==
    IF ~NatLess(index, NatFromInt(Len(rd)))
    THEN Other("Sheet index {index} out of bounds", usize_to_string(index))
    ELSE get_sheet_by_name(rd, sheetnames(rd)[NatToInt(index) + 1])

MaxSheets == 2         \* sheets in a file

SheetNames == {"Sheet1", "Data"}
SheetChoices ==
    {Sheet(n, l, r) : n \in SheetNames, l \in BOOLEAN, r \in {EmptyRange, TestRange}}
Readers == UNION {[1..k -> SheetChoices] : k \in 0..MaxSheets}
SheetIndices == {NatFromInt(n) : n \in 0..(MaxSheets + 1)} \cup {NatFromInt(999), USIZE_MAX}
NameArgs == SheetNames \cup {"NonExistent"}

\* load_workbook: Workbook::new(reader)
BookInit ==
    /\ overflow_checks \in BOOLEAN
    /\ call = [op |-> "new"]
    /\ ret = NoReturn
    /\ title = ""
    /\ range = EmptyRange
    /\ held = NoCell
    /\ queried = {}
    /\ iters = [i \in IterIds |-> NoIter]
    /\ yielded = [i \in IterIds |-> NoRun]
    /\ workbook = << >>
    /\ reader \in Readers

\* The caller keeps the Worksheet a call returned.
Keeps(result) ==
    /\ title' = IF result.tag = "Ok" THEN result.val.title ELSE title
    /\ range' = IF result.tag = "Ok" THEN result.val.range ELSE range
    /\ UNCHANGED <<overflow_checks, held, queried, iters, yielded, workbook, reader>>

CallSheetnames ==
    /\ call' = [op |-> "sheetnames"]
    /\ ret' = Value(sheetnames(reader))
    /\ UNCHANGED <<overflow_checks, workbook, reader>>
    /\ UNCHANGED gridvars

CallGetSheetByName ==
    /\ \E name \in NameArgs :
           /\ call' = [op |-> "get_sheet_by_name", name |-> name]
           /\ ret' = get_sheet_by_name(reader, name)
    /\ Keeps(ret')

CallActive ==
    /\ call' = [op |-> "active"]
    /\ ret' = active(reader)
    /\ Keeps(ret')

CallGetSheetByIndex ==
    /\ \E index \in SheetIndices :
           /\ call' = [op |-> "get_sheet_by_index", index |-> index]
           /\ ret' = get_sheet_by_index(reader, index)
    /\ Keeps(ret')

BookNext ==
    \/ CallSheetnames
    \/ CallGetSheetByName
    \/ CallActive
    \/ CallGetSheetByIndex

SpecBook == BookInit /\ [][BookNext]_vars

----------------------------------------------------------------------------
(* What the claims speak of, stated apart from the code's own loops *)

Returned(op) == call.op = op /\ ret # NoReturn

IsUpperString(s) == s # << >> /\ \A i \in 1..Len(s) : is_ascii_uppercase(s[i])
IsDigitString(s) == s # << >> /\ \A i \in 1..Len(s) : is_ascii_digit(s[i])

\* The length of the longest prefix of uppercase letters.
PrefixLen(s) ==
    CHOOSE k \in 0..Len(s) :
        /\ \A i \in 1..k : is_ascii_uppercase(s[i])
        /\ k = Len(s) \/ ~is_ascii_uppercase(s[k + 1])
LetterPrefix(s) == SubSeq(s, 1, PrefixLen(s))
AfterLetters(s) == SubSeq(s, PrefixLen(s) + 1, Len(s))
\* A non-empty run of letters followed by a non-empty run of digits.
IsLettersThenDigits(s) == IsUpperString(LetterPrefix(s)) /\ IsDigitString(AfterLetters(s))

\* v * 26^k
RECURSIVE Times26Pow(_, _)
Times26Pow(v, k) == IF k = 0 THEN v ELSE Times26Pow(NatMulAdd(v, 26, 0), k - 1)

\* The bijective base-26 value of a letter string: the sum over i of
\* value(s[i]) * 26^(n - i), a mathematical natural of any size.
RECURSIVE BijectiveSum(_, _)
BijectiveSum(s, i) ==
    IF i > Len(s) THEN Zero
    ELSE NatAdd(Times26Pow(NatFromInt(s[i] - CharA + 1), Len(s) - i),
                BijectiveSum(s, i + 1))
BijectiveValue(s) == BijectiveSum(s, 1)

\* The number of letters of the bijective base-26 numeral of n >= 1: the
\* least k with n <= 26 + 26^2 + ... + 26^k.
RECURSIVE BijectiveLengthFrom(_, _)
BijectiveLengthFrom(n, k) ==
    IF NatLeq(n, BijectiveValue(Repeat(CharZ, k))) THEN k
    ELSE BijectiveLengthFrom(n, k + 1)
BijectiveLength(n) == BijectiveLengthFrom(n, 1)

\* The decimal value of a digit string, a mathematical natural of any size.
RECURSIVE DecimalValueFrom(_, _, _)
DecimalValueFrom(s, i, acc) ==
    IF i > Len(s) THEN acc
    ELSE DecimalValueFrom(s, i + 1, NatMulAdd(acc, 10, s[i] - Char0))
DecimalValue(s) == DecimalValueFrom(s, 1, Zero)

RECURSIVE StripLeadingZeros(_)
StripLeadingZeros(s) ==
    IF Len(s) > 1 /\ s[1] = Char0 THEN StripLeadingZeros(Tail(s)) ELSE s

\* A=1, B=2, Z=26, AA=27, AB=28, AZ=52, BA=53, AAA=703
KnownColumns ==
    { <<1, Str(<<1>>)>>, <<2, Str(<<2>>)>>, <<26, Str(<<26>>)>>,
      <<27, Str(<<1, 1>>)>>, <<28, Str(<<1, 2>>)>>, <<52, Str(<<1, 26>>)>>,
      <<53, Str(<<2, 1>>)>>, <<703, Str(<<1, 1, 1>>)>> }

SameOutcome(a, b) == a.tag = b.tag /\ (a.tag = "Ok" => a.val = b.val)

----------------------------------------------------------------------------
(* The claims *)

\* C1: for every column number c in [1, 20000],
\* column_index_from_string(get_column_letter(c)) returns Ok(c).
C1_NumberRoundTrip ==
    (/\ Returned("get_column_letter")
     /\ NatIsSmall(call.col)
     /\ NatToInt(call.col) \in 1..MaxRoundTripCol)
        => column_index_from_string(ret.val) = Ok(call.col)

C1_Witness ==
    /\ Returned("get_column_letter")
    /\ call.col = NatFromInt(703)
    /\ ret.val = Str(<<1, 1, 1>>)
    /\ column_index_from_string(ret.val) = Ok(call.col)

\* C2: for every non-empty string s of uppercase letters A-Z,
\* get_column_letter(column_index_from_string(s)) equals s.
C2_LettersRoundTrip ==
    (Returned("column_index_from_string") /\ IsUpperString(call.col))
        => (ret.tag = "Ok" /\ get_column_letter(ret.val) = call.col)

\* C3: for every row r >= 1 and column c >= 1,
\* coordinate_from_string(coordinate_to_string(r, c)) returns Ok((r, c)).
C3_PairRoundTrip ==
    (Returned("coordinate_to_string") /\ call.row # Zero /\ call.col # Zero)
        => coordinate_from_string(ret.val) = Ok(<<call.row, call.col>>)

C3_Witness ==
    /\ Returned("coordinate_to_string")
    /\ call.row = NatFromInt(1048576)
    /\ call.col = NatFromInt(16384)
    /\ ret.val = XFD \o Text(<<1, 0, 4, 8, 5, 7, 6>>)
    /\ coordinate_from_string(ret.val) = Ok(<<call.row, call.col>>)

C5_BijectiveValue ==
    (Returned("column_index_from_string") /\ IsUpperString(call.col))
        => /\ ret = Ok(BijectiveValue(call.col))
           /\ \A kv \in KnownColumns :
                  call.col = kv[2] => ret = Ok(NatFromInt(kv[1]))

\* C6: get_column_letter gives 1 -> A, 2 -> B, 26 -> Z, 27 -> AA, 28 -> AB,
\* 52 -> AZ, 53 -> BA, 703 -> AAA; a multiple of 26 ends in Z and has the
\* number of letters of its bijective numeral (no carry into an extra
\* leading letter).
C6_ColumnLetters ==
    Returned("get_column_letter")
        => /\ \A kv \in KnownColumns :
                  call.col = NatFromInt(kv[1]) => ret.val = kv[2]
           /\ (call.col # Zero /\ NatMod(call.col, 26) = 0)
                  => /\ ret.val[Len(ret.val)] = CharZ
                     /\ Len(ret.val) = BijectiveLength(call.col)

C6_Witness ==
    /\ Returned("get_column_letter")
    /\ call.col = NatFromInt(52)
    /\ ret.val = Str(<<1, 26>>)

\* C7: column_index_from_string returns Err(InvalidCellReference) exactly
\* when the input is empty or holds a character other than A-Z, and returns
\* Ok otherwise.
C7_RejectsExactlyNonLetters ==
    Returned("column_index_from_string")
        => /\ ret.tag = "Err" <=> ~IsUpperString(call.col)
           /\ IsUpperString(call.col) => ret.tag = "Ok"

\* The inputs C8 lists: a character that is neither A-Z nor 0-9, a letter
\* after a digit, an empty letter prefix, an empty digit suffix, a row of 0.
C8Case(s) ==
    \/ \E i \in 1..Len(s) : ~is_ascii_uppercase(s[i]) /\ ~is_ascii_digit(s[i])
    \/ \E i, j \in 1..Len(s) : i < j /\ is_ascii_digit(s[i]) /\ is_ascii_uppercase(s[j])
    \/ LetterPrefix(s) = << >>
    \/ AfterLetters(s) = << >>
    \/ IsLettersThenDigits(s) /\ DecimalValue(AfterLetters(s)) = Zero

\* C8: coordinate_from_string fails with InvalidCellReference on a character
\* that is neither A-Z nor 0-9, on a letter after a digit, on an empty letter
\* prefix, on an empty digit suffix and on a parsed row value of 0.
C8_RejectsMalformed ==
    (Returned("coordinate_from_string") /\ C8Case(call.coord))
        => ret.tag = "Err"

\* C9 as stated: for every string that is a non-empty run of letters A-Z
\* followed by a non-empty run of digits of value >= 1, coordinate_from_string
\* succeeds and returns (value of the digit run,
\* column_index_from_string(letter run)).
C9_ParsesWellFormed ==
    (/\ Returned("coordinate_from_string")
     /\ IsLettersThenDigits(call.coord)
     /\ DecimalValue(AfterLetters(call.coord)) # Zero)
        => /\ ret.tag = "Ok"
           /\ ret.val[1] = DecimalValue(AfterLetters(call.coord))
           /\ Ok(ret.val[2]) = column_index_from_string(LetterPrefix(call.coord))

\* C9 as amended: for such a string, with v the value of the digit run,
\* coordinate_from_string ends as column_index_from_string(letter run) does
\* when that does not return Ok; otherwise, with Ok(c) returned for the
\* letter run, it returns Ok((v, c)) when v <= usize::MAX and
\* Err(InvalidCellReference) carrying the input when v > usize::MAX.
C9_ParsesWellFormedInRange ==
    (/\ Returned("coordinate_from_string")
     /\ IsLettersThenDigits(call.coord)
     /\ DecimalValue(AfterLetters(call.coord)) # Zero)
        => LET v == DecimalValue(AfterLetters(call.coord))
               c == column_index_from_string(LetterPrefix(call.coord))
           IN  IF c.tag # "Ok" THEN ret = c
               ELSE IF FitsUsize(v) THEN ret = Ok(<<v, c.val>>)
               ELSE ret = invalid_cell_reference(call.coord)

C9_Witness ==
    /\ Returned("coordinate_from_string")
    /\ call.coord = XFD \o Text(<<1, 0, 4, 8, 5, 7, 6>>)
    /\ ret = Ok(<<NatFromInt(1048576), NatFromInt(16384)>>)

\* C10: leading zeros in the digit suffix are tolerated: for every letter
\* run L and digit run D of value >= 1, parsing L, any number of '0' and D
\* ends as parsing L and D does, with the same (row, col).
C10_LeadingZeros ==
    (/\ Returned("coordinate_from_string")
     /\ IsLettersThenDigits(call.coord)
     /\ DecimalValue(AfterLetters(call.coord)) # Zero)
        => LET l == LetterPrefix(call.coord)
               d == AfterLetters(call.coord)
           IN  \A k \in 1..(Len(d) - 1) :
                   (\A i \in 1..k : d[i] = Char0)
                       => SameOutcome(ret,
                              coordinate_from_string(l \o SubSeq(d, k + 1, Len(d))))

C10_Witness ==
    /\ Returned("coordinate_from_string")
    /\ call.coord = <<CharA, Char0, Char0 + 1>>
    /\ ret = Ok(<<NatFromInt(1), NatFromInt(1)>>)
    /\ coordinate_from_string(<<CharA, Char0 + 1>>) = ret

----------------------------------------------------------------------------
(* Claims about the worksheet's lookups *)

\* x - y for x >= y
RECURSIVE SubLimbs(_, _, _, _)
SubLimbs(x, y, i, borrow) ==
    IF i > Len(x) THEN << >>
    ELSE LET b == IF i <= Len(y) THEN y[i] ELSE 0
             t == x[i] - b - borrow
         IN  <<IF t < 0 THEN t + LimbBase ELSE t>>
                 \o SubLimbs(x, y, i + 1, IF t < 0 THEN 1 ELSE 0)

NatSub(x, y) == NatNorm(SubLimbs(x, y, 1, 0))

\* The store's entry at the 0-indexed position, read off the store itself.
HasEntry(row_idx, col_idx) ==
    /\ NatLess(row_idx, NatFromInt(range.height))
    /\ NatLess(col_idx, NatFromInt(range.width))

EntryAt(row_idx, col_idx) == range.cells[<<NatToInt(row_idx), NatToInt(col_idx)>>]

\* m is an f64: at most 53 significant bits.
IsF64Integer(m) ==
    NatBitLen(m) <= 53 \/ NatMod(m, 2 ^ (NatBitLen(m) - 53)) = 0

Distance(a, b) == IF NatLeq(a, b) THEN NatSub(b, a) ELSE NatSub(a, b)

\* m is an f64 with no f64 nearer to the integer n: within half a unit in
\* the last place of n.
IsNearestF64(m, n) ==
    /\ IsF64Integer(m)
    /\ \/ m = n
       \/ /\ NatBitLen(n) > 53
          /\ NatLeq(NatAdd(Distance(m, n), Distance(m, n)),
                    NatFromInt(2 ^ (NatBitLen(n) - 53)))

\* C11: Worksheet::cell(row, col) returns Err(InvalidCellReference) if and
\* only if row = 0 or col = 0, and Ok for every row >= 1 and col >= 1,
\* however far beyond the store's dimensions.
C11_ErrIffZero ==
    Returned("cell")
        => /\ ret.tag \in {"Ok", "Err"}
           /\ ret.tag = "Err" <=> (call.row = Zero \/ call.column = Zero)
           /\ (call.row # Zero /\ call.column # Zero) => ret.tag = "Ok"

C11_Witness ==
    /\ Returned("cell")
    /\ range = TestRange
    /\ call.row = USIZE_MAX
    /\ call.column = NatFromInt(10)
    /\ ret.tag = "Ok"

\* C12: for row >= 1 and col >= 1 where the store has no entry at
\* (row-1, col-1), which includes every position outside the store's
\* dimensions, cell(row, col) succeeds and the Cell's value is Empty.
C12_NoEntryIsEmpty ==
    (/\ Returned("cell")
     /\ call.row # Zero
     /\ call.column # Zero
     /\ ~HasEntry(NatPred(call.row), NatPred(call.column)))
        => /\ ret.tag = "Ok"
           /\ ret.val.value = Empty

C12_Witness ==
    /\ Returned("cell")
    /\ range = TestRange
    /\ call.row = NatFromInt(10)
    /\ call.column = NatFromInt(10)
    /\ ret = Ok(CellNew(NatFromInt(10), NatFromInt(10), Empty))

\* The value the claim C13 names for an entry, given what it names for a
\* stored integer.
ValueNamed(entry, number_of_int) ==
    CASE entry.data = "String" -> {CellString(entry.s)}
      [] entry.data = "Float" -> {Number(entry.f)}
      [] entry.data = "Int" -> number_of_int
      [] entry.data = "Bool" -> {Boolean(entry.b)}
      [] OTHER -> {Empty}

C13Case(number_of_int(_)) ==
    (/\ Returned("cell")
     /\ call.row # Zero
     /\ call.column # Zero)
        => LET row_idx == NatPred(call.row)
               col_idx == NatPred(call.column)
           IN  /\ queried = {<<row_idx, col_idx>>}
               /\ ret.tag = "Ok"
               /\ ret.val.row = call.row
               /\ ret.val.column = call.column
               /\ ret.val.value.kind \in {"String", "Number", "Boolean", "Empty"}
               /\ IF HasEntry(row_idx, col_idx)
                  THEN ret.val.value
                           \in ValueNamed(EntryAt(row_idx, col_idx),
                                          number_of_int(EntryAt(row_idx, col_idx)))
                  ELSE ret.val.value = Empty

StoredNumber(entry) == {Number(F64(entry.i.neg, entry.i.mag, ""))}

NearestF64(entry) ==
    {Number(F64(entry.i.neg, m, "")) :
        m \in {x \in {RoundToF64(entry.i.mag), entry.i.mag,
                      NatPred(entry.i.mag), NatSucc(entry.i.mag)} :
                   IsNearestF64(x, entry.i.mag)}}

\* C13 as stated: for row >= 1 and col >= 1, cell(row, col) queries the
\* store at exactly (row-1, col-1) and returns a Cell with the given row and
\* column whose value is the stored text, number or boolean, and Empty for
\* an empty, error or date/time/duration entry.
C13_StoredValue == C13Case(StoredNumber)

\* C13, amended: as above, but a stored integer comes back as the f64
\* nearest to it, which is the integer itself only up to 53 significant bits.
C13_StoredValueAsF64 == C13Case(NearestF64)

C13_Witness ==
    /\ Returned("cell")
    /\ call.row # Zero
    /\ call.column # Zero
    /\ HasEntry(NatPred(call.row), NatPred(call.column))
    /\ EntryAt(NatPred(call.row), NatPred(call.column)) = DataInt(I64(TRUE, TwoTo53Plus1))
    /\ ret.val.value = Number(F64(TRUE, NatPred(TwoTo53Plus1), ""))

\* C14: get_cell(text) returns exactly what cell(r, c) returns for
\* (r, c) = coordinate_from_string(text); when parsing fails it returns the
\* parser's error unchanged and the store is not queried.
C14_GetCellDelegates ==
    Returned("get_cell")
        => LET parsed == coordinate_from_string(call.coord)
           IN  IF parsed.tag = "Ok"
               THEN /\ ret = cell(parsed.val[1], parsed.val[2])
                    /\ queried = cell_reads(parsed.val[1], parsed.val[2])
               ELSE /\ ret = parsed
                    /\ queried = {}

C14_Witness ==
    /\ Returned("get_cell")
    /\ range = TestRange
    /\ call.coord = Str(<<3>>) \o Text(<<2>>)
    /\ ret = Ok(CellNew(NatFromInt(2), NatFromInt(3), Boolean(FALSE)))

----------------------------------------------------------------------------
(* Claims about row iteration *)

IsSome(x) == x.tag = "Some"
Produced(run) == SelectSeq(run.items, IsSome)

\* hi - lo + 1, and 0 when lo > hi
SpanOf(lo, hi) == IF NatLeq(lo, hi) THEN NatSucc(NatSub(hi, lo)) ELSE Zero

Aborted(i) == call.op = "next" /\ call.id = i /\ ret.tag = "Panic"

Ended(run) == run.items # << >> /\ run.items[Len(run.items)].tag = "NoItem"

\* C15: iter_rows(min_row, max_row, min_col, max_col) yields exactly
\* max_row - min_row + 1 elements when min_row <= max_row and none when
\* min_row > max_row; when min_row >= 1 and min_col >= 1 every element has
\* exactly max_col - min_col + 1 cells (zero when min_col > max_col).
C15_RowAndCellCounts ==
    \A i \in IterIds :
        yielded[i].start.live
            => LET run  == yielded[i]
                   st   == run.start
                   rows == SpanOf(st.current_row, st.max_row)
                   n    == NatFromInt(Len(Produced(run)))
               IN  /\ NatLeq(n, rows)
                   /\ (Ended(run) \/ Aborted(i)) => n = rows
                   /\ (st.current_row # Zero /\ st.min_col # Zero)
                          => \A k \in 1..Len(run.items) :
                                 IsSome(run.items[k])
                                     => NatFromInt(Len(run.items[k].val))
                                            = SpanOf(st.min_col, st.max_col)

\* C16: for min_row >= 1 and min_col >= 1, the j-th cell of the i-th
\* element yielded by iter_rows is the result of cell(min_row + i,
\* min_col + j), both counted from 0: rows ascending, and columns
\* ascending within a row.
C16_RowMajor ==
    \A i \in IterIds :
        (/\ yielded[i].start.live
         /\ yielded[i].start.current_row # Zero
         /\ yielded[i].start.min_col # Zero)
            => LET run == yielded[i]
                   st  == run.start
               IN  \A k \in 1..Len(run.items) :
                       IsSome(run.items[k])
                           => \A j \in 1..Len(run.items[k].val) :
                                  Ok(run.items[k].val[j])
                                      = cell(NatAdd(st.current_row, NatFromInt(k - 1)),
                                             NatAdd(st.min_col, NatFromInt(j - 1)))

\* C17: iter_rows never aborts or reports an error when a cell of the
\* rectangle fails validation: a column 0 is left out of each row, a row 0
\* gives one element that is an empty row, and all other rows and cells are
\* produced as usual.
C17_SkipsInvalidCells ==
    \A i \in IterIds :
        (/\ yielded[i].start.live
         /\ yielded[i].start.current_row = Zero \/ yielded[i].start.min_col = Zero)
            => LET run   == yielded[i]
                   st    == run.start
                   first == IF st.min_col = Zero THEN NatFromInt(1) ELSE st.min_col
               IN  /\ ~Aborted(i)
                   /\ \A k \in 1..Len(run.items) :
                          IsSome(run.items[k])
                              => LET row == NatAdd(st.current_row, NatFromInt(k - 1))
                                 IN  run.items[k].val
                                         = IF row = Zero THEN << >>
                                           ELSE RowCells(row, first, st.max_col)

\* C18: for every min_row and max_row, max_row = usize::MAX included,
\* repeated next() calls reach None after finitely many elements, with no
\* error and without the cursor wrapping around to a smaller row.
C18_EndsWithoutWrap ==
    \A i \in IterIds :
        iters[i].live
            => /\ ~Aborted(i)
               /\ NatLeq(yielded[i].start.current_row, iters[i].current_row)
               /\ NatLeq(NatFromInt(Len(Produced(yielded[i]))),
                         SpanOf(yielded[i].start.current_row, iters[i].max_row))

----------------------------------------------------------------------------
(* Claims about the worksheet as a whole *)

\* What an iterator built as `it` returns to its first n next calls when
\* no other call is made in between, and the iterator it is then.
RECURSIVE AloneItems(_, _)
AloneItems(it, n) ==
    IF n = 0 \/ next(it).tag = "Panic" THEN << >>
    ELSE <<next(it)>> \o AloneItems(next_self(it), n - 1)

RECURSIVE AloneIter(_, _)
AloneIter(it, n) ==
    IF n = 0 \/ next(it).tag = "Panic" THEN it
    ELSE AloneIter(next_self(it), n - 1)

\* C19: any interleaving of next() calls on two or more RowIterators over
\* the same Worksheet gives each iterator the rows it yields when run
\* alone, and advancing one iterator changes neither another iterator's
\* cursor nor the store.
C19_IteratorsIndependent ==
    /\ [](\A i \in IterIds :
              yielded[i].start.live
                  => /\ yielded[i].items
                            = AloneItems(yielded[i].start, Len(yielded[i].items))
                     /\ iters[i] = AloneIter(yielded[i].start, Len(yielded[i].items)))
    /\ [][call'.op = "next"
              => /\ range' = range
                 /\ \A j \in IterIds \ {call'.id} : iters'[j] = iters[j]]_vars

C19_Witness ==
    /\ call.op = "next"
    /\ range = TestRange
    /\ yielded[1].start = iter_rows(NatFromInt(1), NatFromInt(2), NatFromInt(1), NatFromInt(2))
    /\ yielded[2].start = iter_rows(NatFromInt(2), NatFromInt(2), Zero, NatFromInt(1))
    /\ Len(yielded[1].items) = 2
    /\ Len(yielded[2].items) = 2
    /\ iters[1].current_row = NatFromInt(3)
    /\ iters[2].current_row = NatFromInt(3)

\* C20: no operation of the worksheet (dimensions, max_row, max_column,
\* cell, get_cell, iter_rows, RowIterator::next, Cell::set_value on a
\* returned Cell) changes the store or the title: cell(r, c) and
\* dimensions() return after it what they returned before.
C20_StoreUnchanged ==
    [][/\ range' = range
       /\ title' = title
       /\ dimensions' = dimensions
       /\ \A r \in SharedRows, c \in SharedCols : cell(r, c)' = cell(r, c)]_vars

C20_Witness ==
    /\ Returned("set_value")
    /\ range = TestRange
    /\ held = CellNew(NatFromInt(1), NatFromInt(2), CellString("x"))
    /\ cell(NatFromInt(1), NatFromInt(2))
           = Ok(CellNew(NatFromInt(1), NatFromInt(2),
                        Number(F64(FALSE, NatFromInt(42), ""))))

----------------------------------------------------------------------------
(* Further claims about the codec and the worksheet *)

\* C21: dimensions() returns the store's (row_count, column_count)
\* unchanged, max_row() is its first component and max_column() its second,
\* and both are 0 for an empty store.
C21_DimensionsPassThrough ==
    /\ Returned("dimensions")
           => ret = Value(<<NatFromInt(range.height), NatFromInt(range.width)>>)
    /\ Returned("max_row") => ret = Value(NatFromInt(range.height))
    /\ Returned("max_column") => ret = Value(NatFromInt(range.width))
    /\ (range = EmptyRange /\ Returned("dimensions")) => ret = Value(<<Zero, Zero>>)
    /\ (range = EmptyRange /\ (Returned("max_row") \/ Returned("max_column")))
           => ret = Value(Zero)

C21_Witness ==
    /\ Returned("max_column")
    /\ range = TestRange
    /\ ret = Value(NatFromInt(3))

\* C22: coordinate_to_string(row, col) never fails and is
\* get_column_letter(col) followed by the decimal digits of row; for row = 0
\* or col = 0 it still returns a string, one that coordinate_from_string
\* rejects.
C22_LettersThenDecimalRow ==
    Returned("coordinate_to_string")
        => /\ ret.tag = "Value"
           /\ LET letters == get_column_letter(call.col)
                  digits  == SubSeq(ret.val, Len(letters) + 1, Len(ret.val))
              IN  /\ Len(ret.val) > Len(letters)
                  /\ SubSeq(ret.val, 1, Len(letters)) = letters
                  /\ IsDigitString(digits)
                  /\ StripLeadingZeros(digits) = digits
                  /\ DecimalValue(digits) = call.row
           /\ (call.row = Zero \/ call.col = Zero)
                  => coordinate_from_string(ret.val) = invalid_cell_reference(ret.val)

C22_Witness ==
    /\ Returned("coordinate_to_string")
    /\ call.row = Zero
    /\ call.col = NatFromInt(1)
    /\ ret = Value(<<CharA, Char0>>)
    /\ coordinate_from_string(ret.val).tag = "Err"

\* C23: get_column_letter(0) is the empty string, and for every n >= 1
\* get_column_letter(n) is a non-empty string of the letters A-Z only.
C23_EmptyOnlyForZero ==
    Returned("get_column_letter")
        => IF call.col = Zero THEN ret = Value(<< >>)
           ELSE ret.tag = "Value" /\ IsUpperString(ret.val)

C23_Witness ==
    /\ Returned("get_column_letter")
    /\ call.col = Zero
    /\ ret = Value(<< >>)

BeyondLimits(row, col) ==
    ~NatLess(row, NatFromInt(ROW_MAX)) \/ ~NatLess(col, NatFromInt(COL_MAX))

\* C25: Writer::write_string, and likewise the other write_* cell methods,
\* returns an error whenever the zero-based row or column exceeds Excel's
\* limits, for every usize row and col, those that do not fit u32 / u16
\* included; such a request is never written to another, in-range cell.
C25_BeyondLimitsRefused ==
    (/\ call.op \in {"write_string", "write_number", "write_boolean"}
     /\ BeyondLimits(call.row, call.col))
        => /\ ret.tag = "Err"
           /\ \A k \in 1..Len(workbook) :
                  NatToInt(call.sheet) + 1 = k
                      => ~\E c \in workbook[k] :
                             c.row = AsU32(call.row) /\ c.col = AsU16(call.col)

\* C26 as stated: get_sheet_by_index(i) returns the worksheet whose title is
\* sheetnames()[i] when i is less than the number of sheets and an error
\* otherwise; active() returns the worksheet get_sheet_by_index(0) returns,
\* and an error when the workbook has no sheets.
C26_SheetByIndex ==
    /\ Returned("get_sheet_by_index")
           => IF NatLess(call.index, NatFromInt(Len(reader)))
              THEN /\ ret.tag = "Ok"
                   /\ ret.val.title = sheetnames(reader)[NatToInt(call.index) + 1]
              ELSE ret.tag = "Err"
    /\ Returned("active")
           => /\ SameOutcome(ret, get_sheet_by_index(reader, Zero))
              /\ reader = << >> => ret.tag = "Err"

\* The sheet the reader looks up for a name: the first one of that name.
FirstNamed(name) ==
    CHOOSE i \in 1..Len(reader) :
        /\ reader[i].name = name
        /\ \A j \in 1..(i - 1) : reader[j].name # name

\* C26, amended: get_sheet_by_index(i) with i below the number of sheets
\* returns the worksheet titled sheetnames()[i] when the reader can load
\* the range of that name, and SheetNotFound with that name when it cannot;
\* with i not below the number of sheets it returns an error; active()
\* ends as get_sheet_by_index(0) does, except for the text of the error of a
\* workbook with no sheets.
C26_SheetByIndexWhenLoaded ==
    /\ Returned("get_sheet_by_index")
           => IF NatLess(call.index, NatFromInt(Len(reader)))
              THEN LET name == reader[NatToInt(call.index) + 1].name
                       src  == reader[FirstNamed(name)]
                   IN  IF src.loads
                       THEN ret = Ok(WorksheetNew(name, src.range))
                       ELSE ret = sheet_not_found(name)
              ELSE ret.tag = "Err" /\ ret.error = "Other"
    /\ Returned("active")
           => /\ SameOutcome(ret, get_sheet_by_index(reader, Zero))
              /\ reader # << >> => ret = get_sheet_by_index(reader, Zero)
              /\ reader = << >> => ret.tag = "Err"

C26_Witness ==
    /\ Returned("get_sheet_by_index")
    /\ call.index = NatFromInt(1)
    /\ Len(reader) = 2
    /\ reader[1].loads
    /\ ~reader[2].loads
    /\ ret = sheet_not_found(reader[2].name)

\* C27: a RowIterator's cursor is min_row when iter_rows creates it; each
\* next() that yields a row yields the row numbered by the cursor and then
\* increases the cursor by exactly 1, leaving max_row, min_col and max_col
\* unchanged; the cursor never decreases and never skips a row.
C27_CursorStepsByOne ==
    [][\A i \in IterIds :
           /\ (call'.op = "iter_rows" /\ call'.id = i)
                  => iters'[i].current_row = call'.args[1]
           /\ (call'.op = "next" /\ call'.id = i /\ ret'.tag = "Some")
                  => /\ iters'[i].current_row = NatSucc(iters[i].current_row)
                     /\ iters'[i].max_row = iters[i].max_row
                     /\ iters'[i].min_col = iters[i].min_col
                     /\ iters'[i].max_col = iters[i].max_col
                     /\ \A j \in 1..Len(ret'.val) :
                            ret'.val[j].row = iters[i].current_row
           /\ (iters[i].live /\ iters'[i].live)
                  => NatLeq(iters[i].current_row, iters'[i].current_row)]_vars

IsPrefix(a, b) == Len(a) <= Len(b) /\ SubSeq(b, 1, Len(a)) = a

\* C28: once next() has returned None it returns None on every later call
\* and leaves current_row unchanged; only a fresh iter_rows call, which
\* yields the same sequence again for the same bounds, re-scans the range.
C28_NoneIsFinal ==
    /\ [](\A i \in IterIds :
              \A k \in 1..(Len(yielded[i].items) - 1) :
                  yielded[i].items[k].tag = "NoItem"
                      => yielded[i].items[k + 1].tag = "NoItem")
    /\ [](\A i, j \in IterIds :
              (yielded[i].start.live /\ yielded[i].start = yielded[j].start)
                  => \/ IsPrefix(yielded[i].items, yielded[j].items)
                     \/ IsPrefix(yielded[j].items, yielded[i].items))
    /\ [][\A i \in IterIds : Ended(yielded[i]) => iters'[i] = iters[i]]_vars

C28_Witness ==
    /\ call.op = "next"
    /\ call.id = 1
    /\ yielded[1].start = iter_rows(NatFromInt(2), NatFromInt(2), Zero, NatFromInt(1))
    /\ yielded[2].start = yielded[1].start
    /\ Len(yielded[1].items) = 3
    /\ yielded[1].items[2] = None
    /\ yielded[1].items[3] = None
    /\ iters[1].current_row = NatFromInt(3)
    /\ Len(yielded[2].items) = 1
    /\ yielded[2].items[1] = yielded[1].items[1]

\* C29: column_index_from_string enforces no upper bound: for every
\* non-empty string of uppercase letters, whatever its length, it returns Ok
\* with the exact bijective base-26 value, computed without overflow of the
\* machine-word accumulator: never an error, a panic, or a value reduced
\* modulo the word size.
C29_NoUpperBound ==
    (Returned("column_index_from_string") /\ IsUpperString(call.col))
        => /\ ret.tag # "Err"
           /\ ret.tag # "Panic"
           /\ ret.tag = "Ok" => ret.val = BijectiveValue(call.col)

\* The cells a caller has been handed: by cell or get_cell, or in the rows
\* its iterators yielded.
CellsHandedOut ==
    (IF held = NoCell THEN {} ELSE {held})
        \cup UNION { UNION { {it.val[j] : j \in 1..Len(it.val)} :
                                it \in {yielded[i].items[k] :
                                            k \in {n \in 1..Len(yielded[i].items) :
                                                      IsSome(yielded[i].items[n])}} } :
                      i \in IterIds }

\* C30: every Cell returned by Worksheet::cell or Worksheet::get_cell, or
\* contained in a row a RowIterator yielded, has row >= 1 and column >= 1,
\* and its coordinate() is coordinate_to_string(row, column).
C30_CellsAreOneBased ==
    \A c \in CellsHandedOut :
        /\ c.row # Zero
        /\ c.column # Zero
        /\ coordinate(c) = coordinate_to_string(c.row, c.column)
        /\ coordinate(c) = get_column_letter(c.column) \o usize_to_string(c.row)

C30_Witness ==
    /\ call.op = "next"
    /\ range = TestRange
    /\ ret = Some(<<CellNew(NatFromInt(2), NatFromInt(1), CellString("World"))>>)
    /\ held = ret.val[1]
    /\ coordinate(held) = <<CharA, Char0 + 2>>

====
